---- MODULE Spec2Model ----
(***************************************************************************)
(* objection-find: FindQueryBuilder, QueryParameter, PropertyRef, filters. *)
(*                                                                         *)
(* A JavaScript string is a sequence of tokens: a name ("firstName") or a  *)
(* separator (":", "|", ".", ",", " ").  Concatenation is \o, and          *)
(* String.prototype.split is the operator split below, so that parsing a   *)
(* key is computed the way the code computes it.                           *)
(*                                                                         *)
(* The objection.js query builder is the external collaborator: a query is *)
(* the sequence of the operations issued on it, in issue order.            *)
(***************************************************************************)
EXTENDS Naturals, Integers, Sequences, FiniteSets, TLC

\* ------------------------------------------------------------------------
\* Bounds
\* ------------------------------------------------------------------------

\* calls (allow, allowAll, allowEager, registerFilter, specialParameter, build)
\* made on one FindQueryBuilder
MaxCalls == 3

\* ------------------------------------------------------------------------
\* Strings
\* ------------------------------------------------------------------------

RECURSIVE splitFrom(_, _, _, _)
splitFrom(s, sep, i, cur) ==
  IF i > Len(s) THEN <<cur>>
  ELSE IF s[i] = sep THEN <<cur>> \o splitFrom(s, sep, i + 1, <<>>)
  ELSE splitFrom(s, sep, i + 1, Append(cur, s[i]))

\* String.prototype.split(sep): n separators give n + 1 parts, empty parts kept
split(s, sep) == splitFrom(s, sep, 1, <<>>)

\* key.replace(/\s/g, '')
stripWhitespace(s) == SelectSeq(s, LAMBDA t : t # " ")

\* String.prototype.toLowerCase on the tokens used as filter values
toLowerCaseToken(t) ==
  CASE t = "Gump" -> "gump"
    [] t = "F01" -> "f01"
    [] OTHER -> t

toLowerCase(s) == [i \in 1..Len(s) |-> toLowerCaseToken(s[i])]

\* _.capitalize (lodash 4): first character to upper case, the rest to lower case
capitalizeToken(t) ==
  CASE t = "firstName" -> "Firstname"
    [] t = "lastName" -> "Lastname"
    [] t = "id" -> "Id"
    [] t = "age" -> "Age"
    [] t = "name" -> "Name"
    [] t = "sort" -> "Sort"
    [] OTHER -> t

capitalize(s) == [i \in 1..Len(s) |-> IF i = 1 THEN capitalizeToken(s[i]) ELSE s[i]]

\* _.upperFirst on a knex where-method name
upperFirst(m) ==
  CASE m = "where" -> "Where"
    [] m = "whereIn" -> "WhereIn"
    [] m = "whereRaw" -> "WhereRaw"
    [] OTHER -> m

\* ------------------------------------------------------------------------
\* The entity schema (objection.js model classes of the test suite)
\* ------------------------------------------------------------------------

NoRelation ==
  [name |-> "null", type |-> "null", ownerModelClass |-> "null", relatedModelClass |-> "null"]

\* Person.relationMappings
relationMappings ==
  [Person |->
     [parent |-> [name |-> "parent", type |-> "BelongsToOneRelation",
                  ownerModelClass |-> "Person", relatedModelClass |-> "Person"],
      pets   |-> [name |-> "pets", type |-> "HasManyRelation",
                  ownerModelClass |-> "Person", relatedModelClass |-> "Animal"],
      movies |-> [name |-> "movies", type |-> "ManyToManyRelation",
                  ownerModelClass |-> "Person", relatedModelClass |-> "Movie"]]]

\* Relation.isOneToOne()
isOneToOne(rel) == rel.type \in {"BelongsToOneRelation", "HasOneRelation"}

\* Model.getRelation(name) of the root model class; it throws for an unknown name
hasRelation(modelClass, name) ==
  /\ modelClass \in DOMAIN relationMappings
  /\ Len(name) = 1
  /\ name[1] \in DOMAIN relationMappings[modelClass]

getRelation(modelClass, name) == relationMappings[modelClass][name[1]]

\* the conversion between external and database format of a property name: the
\* model classes declare no properties, so every name has a column; "firstName"
\* is stored as "first_name" (the conversion the PropertyRef.columnName comment
\* describes)
formatDatabaseJson(name) ==
  CASE name = "firstName" -> "first_name"
    [] name = "lastName" -> "last_name"
    [] OTHER -> name

\* a conversion that gives the empty property name a column too
columnOfAnyName(modelClass, propertyName) ==
  IF propertyName = <<>> THEN <<"null">>
  ELSE [i \in DOMAIN propertyName |-> formatDatabaseJson(propertyName[i])]

\* Model.propertyNameToColumnName(propertyName): the column, or <<>> (falsy) for
\* the empty name
propertyNameToColumnName(modelClass, propertyName) ==
  [i \in DOMAIN propertyName |-> formatDatabaseJson(propertyName[i])]

\* Model.tableName
tableName(modelClass) == <<modelClass>>

\* ------------------------------------------------------------------------
\* utils.throwError
\* ------------------------------------------------------------------------

NoError == [statusCode |-> 0, message |-> "none", subject |-> <<>>]

throwError(message, subject) == [statusCode |-> 400, message |-> message, subject |-> subject]

\* ------------------------------------------------------------------------
\* PropertyRef
\* ------------------------------------------------------------------------

NoRef ==
  [str |-> <<>>, modelClass |-> "null", relation |-> NoRelation,
   propertyName |-> <<>>, columnName |-> <<>>]

\* PropertyRef._parse: [ok, ref, error]
PropertyRef_parse(str, modelClass) ==
  LET parts == split(str, ".")
      fail(msg, subj) == [ok |-> FALSE, ref |-> NoRef, error |-> throwError(msg, subj)]
      finish(rel, cls, prop) ==
        LET col == propertyNameToColumnName(cls, prop)
        IN  IF col = <<>>
            THEN fail("PropertyRef: unknown property", str)
            ELSE [ok |-> TRUE,
                  ref |-> [str |-> str, modelClass |-> cls, relation |-> rel,
                           propertyName |-> prop, columnName |-> col],
                  error |-> NoError]
  IN  IF Len(parts) = 1 THEN finish(NoRelation, modelClass, parts[1])
      ELSE IF Len(parts) = 2
      THEN IF hasRelation(modelClass, parts[1])
           THEN LET rel == getRelation(modelClass, parts[1])
                IN  finish(rel, rel.relatedModelClass, parts[2])
           ELSE fail("PropertyRef: unknown relation", parts[1])
      ELSE fail("PropertyRef: only one level of relations is supported", str)

\* PropertyRef.fullColumnName
fullColumnName(ref) ==
  IF ref.relation # NoRelation /\ isOneToOne(ref.relation)
  THEN tableName(ref.relation.ownerModelClass) \o <<"_rel_", ref.relation.name, ".">>
         \o ref.columnName
  ELSE tableName(ref.modelClass) \o <<".">> \o ref.columnName

\* ------------------------------------------------------------------------
\* filters
\* ------------------------------------------------------------------------

NULL == <<"null">>

basicWhere(propertyRef, operator, value) ==
  [method |-> "where", args |-> <<fullColumnName(propertyRef), <<operator>>, value>>]

inSet(propertyRef, value) ==
  [method |-> "whereIn", args |-> <<fullColumnName(propertyRef), split(value, ",")>>]

likeLower(propertyRef, value) ==
  [method |-> "whereRaw",
   args |-> <<<<"lower(??) like ?">>, <<fullColumnName(propertyRef), toLowerCase(value)>>>>]

\* the custom filter of the registerFilter documentation
lowercaseEq(propertyRef, value) ==
  [method |-> "whereRaw",
   args |-> <<<<"lower(??) = ?">>, <<fullColumnName(propertyRef), toLowerCase(value)>>>>]

\* the exported built-in filters: registered name -> filter function
filters ==
  [in |-> "inSet", eq |-> "eq", neq |-> "neq", lt |-> "lt", lte |-> "lte", gt |-> "gt",
   gte |-> "gte", like |-> "like", likeLower |-> "likeLower", isNull |-> "isNull",
   notNull |-> "notNull"]

\* calling a filter function: filter(propertyRef, value, modelClass)
callFilter(fn, propertyRef, value) ==
  CASE fn = "inSet" -> inSet(propertyRef, value)
    [] fn = "eq" -> basicWhere(propertyRef, "=", value)
    [] fn = "neq" -> basicWhere(propertyRef, "<>", value)
    [] fn = "lt" -> basicWhere(propertyRef, "<", value)
    [] fn = "lte" -> basicWhere(propertyRef, "<=", value)
    [] fn = "gt" -> basicWhere(propertyRef, ">", value)
    [] fn = "gte" -> basicWhere(propertyRef, ">=", value)
    [] fn = "like" -> basicWhere(propertyRef, "like", value)
    [] fn = "likeLower" -> likeLower(propertyRef, value)
    [] fn = "isNull" -> basicWhere(propertyRef, "is", NULL)
    [] fn = "notNull" -> basicWhere(propertyRef, "is not", NULL)
    [] fn = "lowercaseEq" -> lowercaseEq(propertyRef, value)

\* ------------------------------------------------------------------------
\* FindQueryBuilder: configuration
\* ------------------------------------------------------------------------

VARIABLES
  _allowAll,                    \* FindQueryBuilder._allowAll
  _allow,                       \* FindQueryBuilder._allow: [isArray, keys]
  _allowEager,                  \* FindQueryBuilder._allowEager
  _filters,                     \* FindQueryBuilder._filters: name -> filter function
  _specialParameterMap,         \* logical name -> parameter name
  _inverseSpecialParameterMap,  \* parameter name -> logical name
  _propertyRefCache,            \* reference string -> PropertyRef
  pc,                           \* position inside build, or "idle"
  params,                       \* build's params argument
  parsed,                       \* the QueryParameter list of this build
  idx,                          \* loop index of the running step
  builder,                      \* the calls this build made on the query (the
                                \* caller's, or this._modelClass.query()), in order
  error,                        \* what the last call threw, or NoError
  whitelistChecks,              \* runs of the whitelist check in this build
  calls                         \* calls made on the FindQueryBuilder so far

config ==
  <<_allowAll, _allow, _allowEager, _filters, _specialParameterMap,
    _inverseSpecialParameterMap>>

vars ==
  <<_allowAll, _allow, _allowEager, _filters, _specialParameterMap,
    _inverseSpecialParameterMap, _propertyRefCache, pc, params, parsed, idx, builder,
    error, whitelistChecks, calls>>

\* the model class the builder was constructed for
_modelClass == "Person"

\* the keys of SPECIAL_PARAMETERS, in their order
SPECIAL_PARAMETERS ==
  <<"eager", "join", "rangeEnd", "rangeStart", "orderBy", "orderByAsc", "orderByDesc",
    "groupBy", "count">>

\* names every plain object inherits from Object.prototype (truthy members)
ObjectPrototypeKeys == {<<"constructor">>, <<"toString">>, <<"valueOf">>, <<"hasOwnProperty">>}

\* truthy members every array inherits (Array.prototype and Object.prototype)
ArrayPrototypeKeys ==
  ObjectPrototypeKeys \cup {<<"sort">>, <<"filter">>, <<"map">>, <<"keys">>, <<"values">>,
                            <<"join">>, <<"find">>}

RECURSIVE invertFrom(_, _, _)
invertFrom(map, i, acc) ==
  IF i > Len(SPECIAL_PARAMETERS) THEN acc
  ELSE LET name == SPECIAL_PARAMETERS[i]
           key == map[name]
       IN  invertFrom(map, i + 1,
                      [k \in DOMAIN acc \cup {key} |-> IF k = key THEN name ELSE acc[k]])

\* _.invert(map): a later key of map overwrites an earlier one with the same value
invert(map) == invertFrom(map, 1, <<>>)

\* a cache that also stores the reference of a path that failed to resolve
cacheEveryPropertyRef(ref, cache, r) ==
  [ok |-> r.ok, ref |-> r.ref, error |-> r.error,
   cache |-> [k \in DOMAIN cache \cup {ref} |-> IF k = ref THEN r.ref ELSE cache[k]]]

\* this._propertyRefCache[ref] = propertyRef, for the outcome r of new PropertyRef
cachePropertyRef(ref, cache, r) ==
  IF r.ok
  THEN [ok |-> TRUE, ref |-> r.ref, error |-> NoError,
        cache |-> [k \in DOMAIN cache \cup {ref} |-> IF k = ref THEN r.ref ELSE cache[k]]]
  ELSE [ok |-> FALSE, ref |-> NoRef, cache |-> cache, error |-> r.error]

\* FindQueryBuilder._parsePropertyRef: [ok, ref, cache, error]
_parsePropertyRef(ref, cache) ==
  IF ref \in DOMAIN cache
  THEN [ok |-> TRUE, ref |-> cache[ref], cache |-> cache, error |-> NoError]
  ELSE cachePropertyRef(ref, cache, PropertyRef_parse(ref, _modelClass))

RECURSIVE parsePropertyRefsFrom(_, _, _, _)
RECURSIVE putPropertyRef(_, _, _, _)

\* the loop of _parsePropertyRefs from the i-th reference on
parsePropertyRefsFrom(refs, i, output, cache) ==
  IF i > Len(refs)
  THEN [ok |-> TRUE, refs |-> output, cache |-> cache, error |-> NoError]
  ELSE putPropertyRef(refs, i, output, _parsePropertyRef(refs[i], cache))

\* output[ref] = this._parsePropertyRef(ref), for the outcome r of that call: an
\* object keeps one entry per key
putPropertyRef(refs, i, output, r) ==
  IF ~r.ok
  THEN [ok |-> FALSE, refs |-> <<>>, cache |-> r.cache, error |-> r.error]
  ELSE parsePropertyRefsFrom(
         refs, i + 1,
         IF \E j \in 1..Len(output) : output[j].str = refs[i]
         THEN output ELSE Append(output, r.ref),
         r.cache)

\* FindQueryBuilder._parsePropertyRefs: the object {ref string: PropertyRef} as the
\* sequence of its values in key insertion order; [ok, refs, cache, error]
_parsePropertyRefs(refs, cache) == parsePropertyRefsFrom(refs, 1, <<>>, cache)

\* toArray(arguments): flattenDeep, then compact drops the empty string
toArray(args) == SelectSeq(args, LAMBDA a : a # <<>>)

\* this._allow[str], truthy or not
allowed(allow, str) ==
  \/ str \in allow.keys
  \/ allow.isArray /\ str \in ArrayPrototypeKeys

\* ------------------------------------------------------------------------
\* QueryParameter
\* ------------------------------------------------------------------------

TypeError(subject) == [statusCode |-> 0, message |-> "TypeError", subject |-> subject]

isOrderBy(specialParameter) == specialParameter \in {"orderBy", "orderByAsc", "orderByDesc"}

\* builder._inverseSpecialParameterMap[key]: the logical name, "inherited" for a
\* member of Object.prototype (the map is a plain object), or "undefined"
inverseLookup(inverse, key) ==
  IF key \in DOMAIN inverse THEN inverse[key]
  ELSE IF key \in ObjectPrototypeKeys THEN "inherited"
  ELSE "undefined"

\* builder._filters[name], or "undefined"
filterLookup(registered, name) ==
  IF Len(name) = 1 /\ name[1] \in DOMAIN registered THEN registered[name[1]] ELSE "undefined"

\* the filter of a key with no ':' part
defaultFilter == filters.eq

\* a QueryParameter with the fields its constructor sets before parsing
newParameter(value, key) ==
  [key |-> key, value |-> value, specialParameter |-> "null", propertyRefs |-> <<>>,
   filter |-> "null"]

\* the constructor's outcome when parsing throws e
parameterError(value, key, e, cache) ==
  [ok |-> FALSE, cache |-> cache, error |-> e, param |-> newParameter(value, key)]

\* the filter _parseFilter picks for the parts of a key
filterOf(parts, registered) ==
  IF Len(parts) = 1 THEN defaultFilter
  ELSE IF Len(parts) = 2 THEN filterLookup(registered, parts[2])
  ELSE "undefined"

\* _parseFilter, its last lines: this.filter and this.propertyRefs, for the
\* outcome r of builder._parsePropertyRefs
filterParameter(value, key, filter, r) ==
  IF ~r.ok THEN parameterError(value, key, r.error, r.cache)
  ELSE [ok |-> TRUE, cache |-> r.cache, error |-> NoError,
        param |-> [newParameter(value, key) EXCEPT !.propertyRefs = r.refs,
                                                   !.filter = filter]]

\* _parseFilter on the parts of the key
parseFilterParts(value, key, parts, registered, cache) ==
  IF Len(parts) > 2
  THEN parameterError(value, key, throwError("parameter: invalid query parameter", key), cache)
  ELSE IF filterOf(parts, registered) = "undefined"
  THEN parameterError(value, key, throwError("parameter: invalid filter", key), cache)
  ELSE filterParameter(value, key, filterOf(parts, registered),
                       _parsePropertyRefs(split(parts[1], "|"), cache))

\* QueryParameter._parseFilter
_parseFilter(value, key, registered, cache) ==
  parseFilterParts(value, key, split(stripWhitespace(key), ":"), registered, cache)

\* QueryParameter._parseOrderBy: this.propertyRefs, for the outcome r of
\* builder._parsePropertyRefs
orderByParameter(param, r) ==
  [ok |-> r.ok, cache |-> r.cache, error |-> r.error,
   param |-> [param EXCEPT !.propertyRefs = r.refs]]

\* QueryParameter._parseSpecialParameter with _parseOrderBy
_parseSpecialParameter(value, key, inverse, cache) ==
  LET name == inverseLookup(inverse, key)
      param == [newParameter(value, key) EXCEPT !.specialParameter = name]
  IN  IF name = "inherited"
      \* specialParameter.indexOf is not a function
      THEN [ok |-> FALSE, cache |-> cache, error |-> TypeError(key), param |-> param]
      ELSE IF isOrderBy(name)
      THEN orderByParameter(param, _parsePropertyRefs(split(value, "|"), cache))
      ELSE [ok |-> TRUE, cache |-> cache, error |-> NoError, param |-> param]

\* new QueryParameter(value, key, builder): [ok, param, cache, error]
QueryParameter(value, key, inverse, registered, cache) ==
  IF inverseLookup(inverse, key) # "undefined"
  THEN _parseSpecialParameter(value, key, inverse, cache)
  ELSE _parseFilter(value, key, registered, cache)

\* ------------------------------------------------------------------------
\* The query (objection.js QueryBuilder): the log of the calls made on it
\* ------------------------------------------------------------------------

call(method, args) == [op |-> method, kind |-> "call", args |-> args, sub |-> <<>>]

\* builder.where(function () {...}): the calls the function makes on its builder
whereGroup(log) == [op |-> "where", kind |-> "group", args |-> <<>>, sub |-> log]

\* builder.whereExists(subQuery): the calls that built the subquery
whereExists(log) == [op |-> "whereExists", kind |-> "exists", args |-> <<>>, sub |-> log]

\* rel.ownerModelClass.relatedQuery(rel.name).alias(rel.relatedModelClass.name): the
\* related rows of the owning row (the relation's correlation condition)
relatedQuery(rel) ==
  <<call("relatedQuery", <<rel.ownerModelClass, rel.name>>),
    call("alias", <<rel.relatedModelClass>>)>>

\* the where method buildFilter calls for a filter method and a boolOp
whereMethodOf(method, boolOp) == IF boolOp # "" THEN boolOp \o upperFirst(method) ELSE method

\* PropertyRef._getFilter
_getFilter(ref, param) == callFilter(param.filter, ref, param.value)

\* PropertyRef.buildFilter(param, builder, boolOp): the builder after the call
PropertyRef_buildFilter(ref, param, q, boolOp) ==
  LET filter == _getFilter(ref, param)
      whereMethod == whereMethodOf(filter.method, boolOp)
      rel == ref.relation
  IN  IF rel # NoRelation /\ ~isOneToOne(rel)
      THEN LET subQuery == Append(relatedQuery(rel), call(whereMethod, filter.args))
           IN  Append(q, whereExists(Append(subQuery, call("select", <<1>>))))
      ELSE Append(q, call(whereMethod, filter.args))

\* ------------------------------------------------------------------------
\* FindQueryBuilder: the steps of build, each [ok, builder, error]
\* ------------------------------------------------------------------------

ok(q) == [ok |-> TRUE, builder |-> q, error |-> NoError]

thrown(q, e) == [ok |-> FALSE, builder |-> q, error |-> e]

\* _.find(params, {field: v}): the index of the first match, or 0
RECURSIVE findFrom(_, _, _, _)
findFrom(ps, field, v, i) ==
  IF i > Len(ps) THEN 0 ELSE IF ps[i][field] = v THEN i ELSE findFrom(ps, field, v, i + 1)

find(ps, field, v) == findFrom(ps, field, v, 1)

\* FindQueryBuilder._buildCount
_buildCount(ps, q) ==
  LET countParam == find(ps, "key", <<"count">>)
  IN  IF countParam # 0 THEN ok(Append(q, call("count", <<ps[countParam].value>>))) ELSE ok(q)

\* every property reference of every parameter, in parameter order
RECURSIVE allRefsFrom(_, _)
allRefsFrom(ps, i) ==
  IF i > Len(ps) THEN <<>> ELSE ps[i].propertyRefs \o allRefsFrom(ps, i + 1)

allRefs(ps) == allRefsFrom(ps, 1)

\* _.uniq: the first occurrence of each element, in order
RECURSIVE uniqFrom(_, _, _)
uniqFrom(xs, i, acc) ==
  IF i > Len(xs) THEN acc
  ELSE uniqFrom(xs, i + 1,
                IF \E j \in 1..Len(acc) : acc[j] = xs[i] THEN acc ELSE Append(acc, xs[i]))

\* a _buildJoins that joins once per reference instead of once per relation
uniqKeepingDuplicates(xs) == xs

uniq(xs) == uniqFrom(xs, 1, <<>>)

\* the relations _buildJoins collects: one entry per reference through a
\* one-to-one relation
relationsToJoin(ps) ==
  LET refs == SelectSeq(allRefs(ps),
                        LAMBDA r : r.relation # NoRelation /\ isOneToOne(r.relation))
  IN  [i \in 1..Len(refs) |-> refs[i].relation]

\* a join of the related table under its own name, without the alias
relationJoinUnaliased(relation) ==
  call("leftJoin", <<relation.name, tableName(relation.relatedModelClass)>>)

\* relation.join(builder, {joinOperation: 'leftJoin', relatedTableAlias})
relationJoin(relation) ==
  call("leftJoin", <<relation.name, tableName(_modelClass) \o <<"_rel_", relation.name>>>>)

\* a _buildJoins that selects the columns of the root table whether or not it joins
_buildJoinsAlwaysSelecting(ps, q) ==
  LET toJoin == uniq(relationsToJoin(ps))
  IN  ok(Append(q \o [i \in 1..Len(toJoin) |-> relationJoin(toJoin[i])],
                call("select", <<tableName(_modelClass) \o <<".*">>>>)))

\* FindQueryBuilder._buildJoins
_buildJoins(ps, q) ==
  LET rels == relationsToJoin(ps)
      toJoin == uniq(rels)
      joined == q \o [i \in 1..Len(toJoin) |-> relationJoin(toJoin[i])]
  IN  IF rels # <<>>
      THEN ok(Append(joined, call("select", <<tableName(_modelClass) \o <<".*">>>>)))
      ELSE ok(joined)

\* _.filter(params, 'filter')
filterParams(ps) == SelectSeq(ps, LAMBDA p : p.filter # "null")

RECURSIVE buildFilterEach(_, _, _, _)
buildFilterEach(param, i, q, boolOp) ==
  IF i > Len(param.propertyRefs) THEN q
  ELSE buildFilterEach(param, i + 1,
                       PropertyRef_buildFilter(param.propertyRefs[i], param, q, boolOp),
                       boolOp)

\* a _buildFilter that adds a single-reference filter with orWhere
_buildFilterWithOr(param, q) ==
  IF Len(param.propertyRefs) = 1
  THEN ok(PropertyRef_buildFilter(param.propertyRefs[1], param, q, "or"))
  ELSE ok(Append(q, whereGroup(buildFilterEach(param, 1, <<>>, "or"))))

\* FindQueryBuilder._buildFilter
_buildFilter(param, q) ==
  IF Len(param.propertyRefs) = 1
  THEN ok(PropertyRef_buildFilter(param.propertyRefs[1], param, q, ""))
  ELSE ok(Append(q, whereGroup(buildFilterEach(param, 1, <<>>, "or"))))

\* FindQueryBuilder._buildGroupBy
_buildGroupBy(ps, q) ==
  LET groupByParam == find(ps, "key", <<"groupBy">>)
  IN  IF groupByParam # 0
      THEN LET cols == split(ps[groupByParam].value, ",")
           IN  ok(q \o <<call("select", <<cols>>), call("groupBy", <<cols>>)>>)
      ELSE ok(q)

\* the parameters _buildOrderBy acts on
orderByParams(ps) == SelectSeq(ps, LAMBDA p : isOrderBy(p.specialParameter))

\* a _buildOrderBy that orders through any relation, one-to-one or not
_buildOrderByAnyRelation(param, q) ==
  LET propertyRef == param.propertyRefs[1]
      dir == IF param.specialParameter = "orderByDesc" THEN "desc" ELSE "asc"
      rel == propertyRef.relation
      columnNameAlias == <<rel.name>> \o capitalize(propertyRef.propertyName)
  IN  IF rel # NoRelation
      THEN ok(q \o <<call("select", <<fullColumnName(propertyRef) \o <<" as ">>
                                         \o columnNameAlias>>),
                     call("orderBy", <<columnNameAlias, dir>>)>>)
      ELSE ok(Append(q, call("orderBy", <<propertyRef.columnName, dir>>)))

\* FindQueryBuilder._buildOrderBy: the body of its loop, for one ordering parameter
_buildOrderBy(param, q) ==
  LET propertyRef == param.propertyRefs[1]
      dir == IF param.specialParameter = "orderByDesc" THEN "desc" ELSE "asc"
      rel == propertyRef.relation
      columnNameAlias == <<rel.name>> \o capitalize(propertyRef.propertyName)
  IN  IF rel # NoRelation
      THEN IF ~isOneToOne(rel)
           THEN thrown(q, throwError("Can only order by own and BelongsToOneRelation properties",
                                     propertyRef.str))
           ELSE ok(q \o <<call("select", <<fullColumnName(propertyRef) \o <<" as ">>
                                              \o columnNameAlias>>),
                          call("orderBy", <<columnNameAlias, dir>>)>>)
      ELSE ok(Append(q, call("orderBy", <<propertyRef.columnName, dir>>)))

\* _.parseInt on the values used as range bounds: <<n>>, or <<>> for NaN
parseInt(value) ==
  IF Len(value) # 1 THEN <<>>
  ELSE CASE value[1] = "0" -> <<0>>
         [] value[1] = "2" -> <<2>>
         [] value[1] = "4" -> <<4>>
         [] value[1] = "-1" -> <<-1>>
         [] value[1] = "2px" -> <<2>>
         [] OTHER -> <<>>

\* _.isNaN
isNaN(n) == n = <<>>

\* a _buildRange that validates the start of the range only
_buildRangeCheckingStart(ps, q) ==
  LET rangeStart == find(ps, "specialParameter", "rangeStart")
      rangeEnd == find(ps, "specialParameter", "rangeEnd")
  IN  IF rangeStart # 0 /\ rangeEnd # 0
      THEN LET start == parseInt(ps[rangeStart].value)
               end == parseInt(ps[rangeEnd].value)
           IN  IF isNaN(start)
               THEN thrown(q, throwError("Invalid range start or end", <<>>))
               ELSE IF isNaN(end) THEN ok(q)
               ELSE ok(Append(q, call("range", <<start[1], end[1]>>)))
      ELSE ok(q)

\* FindQueryBuilder._buildRange
_buildRange(ps, q) ==
  LET rangeStart == find(ps, "specialParameter", "rangeStart")
      rangeEnd == find(ps, "specialParameter", "rangeEnd")
  IN  IF rangeStart # 0 /\ rangeEnd # 0
      THEN LET start == parseInt(ps[rangeStart].value)
               end == parseInt(ps[rangeEnd].value)
           IN  IF isNaN(start) \/ isNaN(end)
               THEN thrown(q, throwError("Invalid range start or end", <<>>))
               ELSE ok(Append(q, call("range", <<start[1], end[1]>>)))
      ELSE ok(q)

\* a graph step that restricts the graph after loading it
buildGraphRestrictingLast(ps, q, allowEager, directive, loader) ==
  LET param == find(ps, "specialParameter", directive)
      q1 == Append(q, call(loader, <<ps[param].value>>))
  IN  IF param = 0 THEN ok(q)
      ELSE ok(IF allowEager # <<>> THEN Append(q1, call("allowGraph", <<allowEager>>)) ELSE q1)

\* _buildEager and _buildJoin differ in the directive and in the loader only
buildGraph(ps, q, allowEager, directive, loader) ==
  LET param == find(ps, "specialParameter", directive)
      q1 == IF allowEager # <<>> THEN Append(q, call("allowGraph", <<allowEager>>)) ELSE q
  IN  IF param = 0 THEN ok(q) ELSE ok(Append(q1, call(loader, <<ps[param].value>>)))

\* FindQueryBuilder._buildEager
_buildEager(ps, q, allowEager) == buildGraph(ps, q, allowEager, "eager", "withGraphFetched")

\* FindQueryBuilder._buildJoin
_buildJoin(ps, q, allowEager) == buildGraph(ps, q, allowEager, "join", "withGraphJoined")

\* ------------------------------------------------------------------------
\* Inputs
\* ------------------------------------------------------------------------

P(key, value) == [key |-> key, value |-> value, isArray |-> FALSE]

PA(key, values) == [key |-> key, value |-> values, isArray |-> TRUE]

\* the params hashes build is called with, each in key order
ParamLists ==
  { <<>>,
    <<P(<<"firstName">>, <<"Gump">>)>>,
    <<P(<<"sort">>, <<"Gump">>)>>,
    <<P(<<"lastName", "|", "movies", ".", "name", ":", "like">>, <<"Gump">>)>>,
    <<P(<<"movies", ".", "name", "|", "lastName", ":", "like">>, <<"Gump">>)>>,
    <<P(<<"pets", ".", "name", "|", "movies", ".", "name", ":", "likeLower">>, <<"Gump">>)>>,
    <<P(<<"parent", ".", "firstName", "|", "parent", ".", "lastName", ":", "like">>, <<"Gump">>),
      P(<<"pets", ".", "name", ":", "gt">>, <<"F01">>),
      P(<<"orderByDesc">>, <<"parent", ".", "age">>)>>,
    <<P(<<"firstName", "|", "firstName", ":", "leq">>, <<"Gump">>),
      P(<<"count">>, <<"id">>)>>,
    <<P(<<"pets", ".", "name", ":", "gt">>, <<"F01">>),
      P(<<"pets", ".", "name", ":", "lt">>, <<"Gump">>)>>,
    <<PA(<<"firstName", ":", "in">>, <<<<"F01", ",", "Gump">>, <<"F01">>>>),
      P(<<"parent", ".", "age", ":", "lt">>, <<"4">>), P(<<"count">>, <<"id">>)>>,
    <<P(<<"firstName">>, <<"Gump">>), P(<<"orderBy">>, <<"movies", ".", "name">>)>>,
    <<P(<<"orderByAsc">>, <<"lastName">>), P(<<"orderBy">>, <<"parent", ".", "firstName">>)>>,
    <<P(<<"parent", ".", "id", ":", "notNull">>, <<>>),
      P(<<"rangeStart">>, <<"zero">>), P(<<"rangeEnd">>, <<"4">>)>>,
    <<P(<<"rangeStart">>, <<"2">>), P(<<"rangeEnd">>, <<"4">>),
      P(<<"eager">>, <<"parent">>)>>,
    <<P(<<"groupBy">>, <<"firstName", ",", "nope", ".", "name">>), P(<<"join">>, <<"parent">>)>>,
    <<P(<<"movies", ".", ".", "name">>, <<"Gump">>)>>,
    <<P(<<"lastName">>, <<"Gump">>), P(<<"nope", ".", "name">>, <<"Gump">>)>>,
    <<P(<<"firstName", ":", "bogus">>, <<"Gump">>)>>,
    <<P(<<"alt">>, <<"id">>)>>,
    <<P(<<"alt">>, <<"2">>), P(<<"rangeEnd">>, <<"4">>)>>,
    <<P(<<"rangeStart">>, <<"2">>), P(<<"alt">>, <<"4">>)>>,
    <<P(<<"rangeStart">>, <<"2">>), P(<<"rangeEnd">>, <<"zero">>)>>,
    <<P(<<"rangeStart">>, <<"-1">>), P(<<"rangeEnd">>, <<"4">>)>>,
    <<P(<<"rangeStart">>, <<"2">>)>>,
    <<P(<<"firstName", ":", ":", "eq">>, <<"Gump">>)>>,
    <<P(<<":", "eq">>, <<"Gump">>)>>,
    <<P(<<"firstName", "|", ":", "eq">>, <<"Gump">>)>>,
    <<P(<<"firstName", ":">>, <<"Gump">>)>>,
    <<P(<<"movies", ".">>, <<"Gump">>)>>,
    <<P(<<".", "name">>, <<"Gump">>)>>,
    <<P(<<"movies", ".", "name", ".", "length">>, <<"Gump">>)>>,
    <<P(<<"nope">>, <<"Gump">>), P(<<"orderBy">>, <<"parent", ".", "nope">>)>>,
    <<P(<<"constructor">>, <<"Gump">>)>>,
    <<P(<<"orderBy">>, <<"lastName", "|", "firstName">>)>> }

\* the argument lists allow is called with
AllowArgs ==
  { <<<<"firstName">>>>,
    <<<<"parent", ".", "firstName">>, <<"movies", ".", "name">>, <<"lastName">>>>,
    <<<<"id">>, <<"nope", ".", "name">>>> }

\* the logical names specialParameter is called with
RenamedParameters == {"eager", "join", "rangeEnd", "rangeStart", "count"}

\* the new parameter names specialParameter is called with
ParameterNames == {<<"alt">>}

\* the (name, filter) pairs registerFilter is called with
FilterRegistrations == {<<"leq", "lowercaseEq">>, <<"eq", "lowercaseEq">>}

\* the expressions allowEager is called with
EagerExpressions == {<<"parent">>}

\* ------------------------------------------------------------------------
\* FindQueryBuilder: construction and configuration calls
\* ------------------------------------------------------------------------

idle ==
  /\ pc' = "idle"
  /\ params' = <<>>
  /\ parsed' = <<>>
  /\ idx' = 0
  /\ builder' = <<>>
  /\ whitelistChecks' = 0

canCall == pc \in {"idle", "done", "failed"} /\ calls < MaxCalls

\* the constructor
Init ==
  /\ _allowAll = TRUE
  /\ _allow = [isArray |-> FALSE, keys |-> {}]
  /\ _allowEager = <<>>
  /\ _filters = filters
  /\ _specialParameterMap =
       [n \in {SPECIAL_PARAMETERS[i] : i \in DOMAIN SPECIAL_PARAMETERS} |-> <<n>>]
  /\ _inverseSpecialParameterMap =
       invert([n \in {SPECIAL_PARAMETERS[i] : i \in DOMAIN SPECIAL_PARAMETERS} |-> <<n>>])
  /\ _propertyRefCache = <<>>
  /\ pc = "idle"
  /\ params = <<>>
  /\ parsed = <<>>
  /\ idx = 0
  /\ builder = <<>>
  /\ error = NoError
  /\ whitelistChecks = 0
  /\ calls = 0

\* FindQueryBuilder.allowAll
allowAll ==
  /\ canCall
  /\ _allowAll' = TRUE
  /\ _allow' = [isArray |-> TRUE, keys |-> {}]
  /\ error' = NoError
  /\ calls' = calls + 1
  /\ idle
  /\ UNCHANGED <<_allowEager, _filters, _specialParameterMap, _inverseSpecialParameterMap,
                 _propertyRefCache>>

\* _.merge(this._allow, refs)
merge(allow, refs) == [allow EXCEPT !.keys = @ \cup {refs[i].str : i \in DOMAIN refs}]

\* FindQueryBuilder.allow
allow(args) ==
  /\ canCall
  /\ _allowAll' = FALSE
  /\ LET r == _parsePropertyRefs(toArray(args), _propertyRefCache)
     IN  /\ _propertyRefCache' = r.cache
         /\ _allow' = IF r.ok THEN merge(_allow, r.refs) ELSE _allow
         /\ error' = r.error
  /\ calls' = calls + 1
  /\ idle
  /\ UNCHANGED <<_allowEager, _filters, _specialParameterMap, _inverseSpecialParameterMap>>

\* FindQueryBuilder.allowEager(exp)
allowEager(exp) ==
  /\ canCall
  /\ _allowEager' = exp
  /\ error' = NoError
  /\ calls' = calls + 1
  /\ idle
  /\ UNCHANGED <<_allowAll, _allow, _filters, _specialParameterMap,
                 _inverseSpecialParameterMap, _propertyRefCache>>

\* FindQueryBuilder.registerFilter
registerFilter(filterName, filter) ==
  /\ canCall
  /\ _filters' = [n \in DOMAIN _filters \cup {filterName} |->
                    IF n = filterName THEN filter ELSE _filters[n]]
  /\ error' = NoError
  /\ calls' = calls + 1
  /\ idle
  /\ UNCHANGED <<_allowAll, _allow, _allowEager, _specialParameterMap,
                 _inverseSpecialParameterMap, _propertyRefCache>>

\* FindQueryBuilder.specialParameter
specialParameter(name, parameterName) ==
  /\ canCall
  /\ _specialParameterMap' = [_specialParameterMap EXCEPT ![name] = parameterName]
  /\ _inverseSpecialParameterMap' =
       invert([_specialParameterMap EXCEPT ![name] = parameterName])
  /\ error' = NoError
  /\ calls' = calls + 1
  /\ idle
  /\ UNCHANGED <<_allowAll, _allow, _allowEager, _filters, _propertyRefCache>>

\* ------------------------------------------------------------------------
\* FindQueryBuilder.build, step by step
\* ------------------------------------------------------------------------

\* where build goes after a step, skipping the loops that have nothing to do
afterJoins(ps) ==
  IF filterParams(ps) # <<>> THEN "filters"
  ELSE "groupBy"

afterGroupBy(ps) ==
  IF orderByParams(ps) # <<>> THEN "orderBy"
  ELSE "range"

\* build(params, builder): builder = builder || this._modelClass.query()
build(ps) ==
  /\ canCall
  /\ calls' = calls + 1
  /\ params' = ps
  /\ builder' = <<>>
  /\ parsed' = <<>>
  /\ idx' = 1
  /\ error' = NoError
  /\ whitelistChecks' = 0
  /\ pc' = IF ps = <<>> THEN "check" ELSE "parse"
  /\ UNCHANGED <<config, _propertyRefCache>>

RECURSIVE parseValues(_, _, _, _, _, _, _)
RECURSIVE pushParameter(_, _, _, _, _, _, _)

\* the values of one key from the i-th on: parsed.push(new QueryParameter(...))
parseValues(values, i, key, acc, inverse, registered, cache) ==
  IF i > Len(values) THEN [ok |-> TRUE, parsed |-> acc, cache |-> cache, error |-> NoError]
  ELSE pushParameter(values, i, key, acc, inverse, registered,
                     QueryParameter(values[i], key, inverse, registered, cache))

\* parsed.push, for the outcome r of new QueryParameter
pushParameter(values, i, key, acc, inverse, registered, r) ==
  IF ~r.ok THEN [ok |-> FALSE, parsed |-> acc, cache |-> r.cache, error |-> r.error]
  ELSE parseValues(values, i + 1, key, Append(acc, r.param), inverse, registered, r.cache)

\* one iteration of the loop of _parseQueryParameters: every value of an array value
\* is parsed as a parameter of its own
parseEntry(entry, acc, inverse, registered, cache) ==
  parseValues(IF entry.isArray THEN entry.value ELSE <<entry.value>>, 1, entry.key, acc,
              inverse, registered, cache)

\* _parseQueryParameters, the loop: one key of params
parseStep(r) ==
  /\ _propertyRefCache' = r.cache
  /\ parsed' = r.parsed
  /\ error' = r.error
  /\ pc' = IF ~r.ok THEN "failed" ELSE IF idx = Len(params) THEN "check" ELSE "parse"

\* a parsing loop that records the references it has parsed in the whitelist, as
\* allow does with the references it parses
ParseAndAllow ==
  /\ pc = "parse"
  /\ parseStep(parseEntry(params[idx], parsed, _inverseSpecialParameterMap, _filters,
                          _propertyRefCache))
  /\ idx' = idx + 1
  /\ _allow' = merge(_allow, allRefs(parsed))
  /\ UNCHANGED <<_allowAll, _allowEager, _filters, _specialParameterMap,
                 _inverseSpecialParameterMap, params, builder, whitelistChecks, calls>>

ParseQueryParameter ==
  /\ pc = "parse"
  /\ parseStep(parseEntry(params[idx], parsed, _inverseSpecialParameterMap, _filters,
                          _propertyRefCache))
  /\ idx' = idx + 1
  /\ UNCHANGED <<config, params, builder, whitelistChecks, calls>>

\* the first property reference of the parsed parameters that is not allowed, as a
\* one-element sequence, or <<>>
firstNotAllowed(ps, whitelist) ==
  LET refs == SelectSeq(allRefs(ps), LAMBDA r : ~allowed(whitelist, r.str))
  IN  IF refs = <<>> THEN <<>> ELSE <<refs[1]>>

\* a check that lets every property reference through
checkNothing(ps, allowAllFlag, whitelist) == NoError

\* _parseQueryParameters, the check that only allowed property references are
\* used: the error it throws, or NoError
checkAllowed(ps, allowAllFlag, whitelist) ==
  LET bad == IF allowAllFlag THEN <<>> ELSE firstNotAllowed(ps, whitelist)
  IN  IF bad # <<>> THEN throwError("Property reference not allowed", bad[1].str)
      ELSE NoError

CheckAllowed ==
  /\ pc = "check"
  /\ whitelistChecks' = whitelistChecks + 1
  /\ error' = checkAllowed(parsed, _allowAll, _allow)
  /\ pc' = IF checkAllowed(parsed, _allowAll, _allow) # NoError THEN "failed" ELSE "count"
  /\ UNCHANGED <<config, _propertyRefCache, params, parsed, idx, builder, calls>>

\* a step of build that runs once: its result, and where build goes next
step(r, next) ==
  /\ builder' = r.builder
  /\ error' = r.error
  /\ pc' = IF r.ok THEN next ELSE "failed"
  /\ idx' = 1
  /\ UNCHANGED <<config, _propertyRefCache, params, parsed, whitelistChecks, calls>>

\* a step of a loop of build over ps: its result, and where build goes after the loop
loopStep(r, ps, next) ==
  /\ builder' = r.builder
  /\ error' = r.error
  /\ pc' = IF ~r.ok THEN "failed" ELSE IF idx = Len(ps) THEN next ELSE pc
  /\ idx' = IF r.ok /\ idx < Len(ps) THEN idx + 1 ELSE 1
  /\ UNCHANGED <<config, _propertyRefCache, params, parsed, whitelistChecks, calls>>

BuildCount == pc = "count" /\ step(_buildCount(parsed, builder), "joins")

BuildJoins == pc = "joins" /\ step(_buildJoins(parsed, builder), afterJoins(parsed))

\* _buildFilters: one iteration of its loop
BuildFilter ==
  /\ pc = "filters"
  /\ loopStep(_buildFilter(filterParams(parsed)[idx], builder), filterParams(parsed), "groupBy")

BuildGroupBy == pc = "groupBy" /\ step(_buildGroupBy(parsed, builder), afterGroupBy(parsed))

\* _buildOrderBy: one iteration of its loop that reaches an ordering parameter
BuildOrderBy ==
  /\ pc = "orderBy"
  /\ loopStep(_buildOrderBy(orderByParams(parsed)[idx], builder), orderByParams(parsed), "range")

BuildRange == pc = "range" /\ step(_buildRange(parsed, builder), "eager")

BuildEager == pc = "eager" /\ step(_buildEager(parsed, builder, _allowEager), "join")

\* _buildJoin, and build returns the builder
BuildJoin == pc = "join" /\ step(_buildJoin(parsed, builder, _allowEager), "done")

Next ==
  \/ allowAll
  \/ \E args \in AllowArgs : allow(args)
  \/ \E exp \in EagerExpressions : allowEager(exp)
  \/ \E f \in FilterRegistrations : registerFilter(f[1], f[2])
  \/ \E name \in RenamedParameters, k \in ParameterNames : specialParameter(name, k)
  \/ \E ps \in ParamLists : build(ps)
  \/ ParseQueryParameter
  \/ CheckAllowed
  \/ BuildCount
  \/ BuildJoins
  \/ BuildFilter
  \/ BuildGroupBy
  \/ BuildOrderBy
  \/ BuildRange
  \/ BuildEager
  \/ BuildJoin

Spec == Init /\ [][Next]_vars

\* ------------------------------------------------------------------------
\* What a built query selects: the where clauses of a call log, evaluated on a row
\* ------------------------------------------------------------------------

WhereMethods == {"where", "whereIn", "whereRaw"}

OrWhereMethods == {"orWhere", "orWhereIn", "orWhereRaw"}

\* the calls of a log that add a clause to the WHERE of its query
isWhereClause(c) ==
  \/ c.kind \in {"group", "exists"}
  \/ c.op \in WhereMethods \cup OrWhereMethods
  \/ c.op = "relatedQuery"

whereClauses(log) == SelectSeq(log, isWhereClause)

\* knex joins a clause added by an or-method with OR, any other with AND
boolOf(c) == IF c.op \in OrWhereMethods THEN "or" ELSE "and"

\* the column a filter call tests
columnOf(c) == IF c.op \in {"whereRaw", "orWhereRaw"} THEN c.args[2][1] ELSE c.args[1]

\* the rows a related table may hold, seen from one owning row: whether the row
\* belongs to that owner, and whether it passes the filter's test
RelatedRows == [owned : BOOLEAN, match : BOOLEAN]

ToManyRelations == {"pets", "movies"}

\* a database seen from one row of the root table: the columns of the row (own or
\* joined through a one-to-one relation) that pass the filter's test, and the rows
\* of each to-many relation's table
Worlds(cols) == [outer : SUBSET cols, rows : [ToManyRelations -> SUBSET RelatedRows]]

RECURSIVE evalClause(_, _, _)
RECURSIVE evalFrom(_, _, _, _, _, _)

\* SQL: c1 AND c2 OR c3 ... with AND binding tighter than OR; the connective of the
\* first clause is dropped
evalFrom(cs, i, w, row, cur, acc) ==
  IF i > Len(cs) THEN acc \/ cur
  ELSE IF i > 1 /\ boolOf(cs[i]) = "or"
       THEN evalFrom(cs, i + 1, w, row, evalClause(cs[i], w, row), acc \/ cur)
       ELSE evalFrom(cs, i + 1, w, row, cur /\ evalClause(cs[i], w, row), acc)

\* the WHERE of a call log on the outer row (row = <<>>) or on a related row
evalWhere(log, w, row) == evalFrom(whereClauses(log), 1, w, row, TRUE, FALSE)

evalClause(c, w, row) ==
  IF c.kind = "group" THEN evalWhere(c.sub, w, row)
  ELSE IF c.kind = "exists"
  THEN \E r \in w.rows[c.sub[1].args[2]] : evalWhere(c.sub, w, <<r>>)
  ELSE IF c.op = "relatedQuery" THEN row[1].owned
  ELSE IF row # <<>> THEN row[1].match
  ELSE columnOf(c) \in w.outer

isToMany(ref) == ref.relation # NoRelation /\ ~isOneToOne(ref.relation)

\* the documented test of one branch of a filter parameter on a row: the column
\* passes, or some related row of this owner passes
branchTest(ref, w) ==
  IF isToMany(ref)
  THEN \E r \in w.rows[ref.relation.name] : r.owned /\ r.match
  ELSE fullColumnName(ref) \in w.outer

outerColumns(param) ==
  {fullColumnName(param.propertyRefs[i]) : i \in DOMAIN param.propertyRefs}

\* the positions of builder build has passed
PastCheck == {"count", "joins", "filters", "groupBy", "orderBy", "range", "eager", "join", "done"}

PastJoins == PastCheck \ {"count", "joins"}

PastFilters == PastJoins \ {"filters"}

PastOrderBy == {"range", "eager", "join", "done"}

\* the calls the filters step has added for the filter parameters handled so far
filtersDone == IF pc = "filters" THEN idx - 1 ELSE Len(filterParams(parsed))

filterCalls == SelectSeq(builder, LAMBDA c : isWhereClause(c))

\* ------------------------------------------------------------------------
\* Properties
\* ------------------------------------------------------------------------

\* C1: once the whitelist is narrowed, a build gets past the whitelist check only
\* if every property reference of its parameters (filter branches and ordering
\* paths) is in the allowed set, and the check fails only for a reference that is
\* not in the set.
C1_WhitelistEnforced ==
  /\ (~_allowAll /\ pc \in PastCheck) =>
       \A i \in DOMAIN allRefs(parsed) : allRefs(parsed)[i].str \in _allow.keys
  /\ (pc = "failed" /\ error.message = "Property reference not allowed") =>
       /\ ~_allowAll
       /\ error.statusCode = 400
       /\ error.subject \notin _allow.keys

existsOf(c) ==
  IF c.kind = "exists" THEN <<c>>
  ELSE IF c.kind = "group" THEN SelectSeq(c.sub, LAMBDA x : x.kind = "exists")
  ELSE <<>>

toManyRefs(param) == SelectSeq(param.propertyRefs, isToMany)

\* C3: every branch through a to-many relation, in a single-branch and in a
\* multi-branch parameter, gives exactly one EXISTS test whose subquery is true
\* of a related row exactly when the row belongs to the owner and passes the test.
C3_ExistsIsCorrelated ==
  pc \in PastFilters =>
    \A i \in DOMAIN filterParams(parsed) :
      LET param == filterParams(parsed)[i]
          tests == existsOf(filterCalls[i])
      IN  /\ Len(tests) = Len(toManyRefs(param))
          /\ \A j \in DOMAIN tests :
               /\ tests[j].sub[1].args[2] = toManyRefs(param)[j].relation.name
               /\ \A r \in RelatedRows :
                    evalWhere(tests[j].sub, [outer |-> {}, rows |-> <<>>], <<r>>)
                      = (r.owned /\ r.match)

\* one-to-one relations the parsed parameters refer to
oneToOneNames(ps) ==
  {allRefs(ps)[i].relation.name :
     i \in {j \in DOMAIN allRefs(ps) :
              allRefs(ps)[j].relation # NoRelation /\ isOneToOne(allRefs(ps)[j].relation)}}

joinCalls == SelectSeq(builder, LAMBDA c : c.kind = "call" /\ c.op = "leftJoin")

\* C4: the joins of a build are exactly one left join per distinct one-to-one
\* relation its filter and ordering paths refer to, however often the relation is
\* referred to; a to-many relation is never joined.
C4_OneJoinPerToOneRelation ==
  /\ \A i \in DOMAIN builder :
       ~(builder[i].kind = "call" /\ builder[i].op \in {"join", "innerJoin", "rightJoin"})
  /\ \A i \in DOMAIN joinCalls : joinCalls[i].args[1] \notin ToManyRelations
  /\ pc \in PastJoins =>
       /\ {joinCalls[i].args[1] : i \in DOMAIN joinCalls} = oneToOneNames(parsed)
       /\ Len(joinCalls) = Cardinality(oneToOneNames(parsed))

C4_Witness ==
  /\ pc = "done"
  /\ Len(relationsToJoin(parsed)) >= 3
  /\ \E i \in DOMAIN allRefs(parsed) : isToMany(allRefs(parsed)[i])
  /\ Len(joinCalls) = 1

\* C5: every filter parameter (every value of an array-valued key too) adds exactly
\* one clause to the top level of the outer query, and every top-level clause is
\* joined with AND, never OR; a parameter on a to-many path adds an EXISTS clause
\* of its own, also when another parameter is on the same path.
C5_FiltersAreConjuncts ==
  /\ pc \in PastJoins => Len(filterCalls) = filtersDone
  /\ Len(filterCalls) <= Len(filterParams(parsed))
  /\ \A i \in DOMAIN filterCalls :
       /\ boolOf(filterCalls[i]) = "and"
       /\ LET param == filterParams(parsed)[i]
          IN  /\ Len(param.propertyRefs) >= 2 <=> filterCalls[i].kind = "group"
              /\ (Len(param.propertyRefs) = 1 /\ isToMany(param.propertyRefs[1]))
                   <=> filterCalls[i].kind = "exists"

C5_Witness ==
  /\ pc = "done"
  /\ Len(filterParams(parsed)) = 2
  /\ filterParams(parsed)[1].key # filterParams(parsed)[2].key
  /\ filterParams(parsed)[1].propertyRefs = filterParams(parsed)[2].propertyRefs
  /\ \A i \in 1..2 : filterCalls[i].kind = "exists"

\* C6: a build that fails leaves none of its operations on the query.
C6_FailedBuildLeavesQueryUntouched == pc = "failed" => builder = <<>>

\* the parameters a params hash holds: one per value
RECURSIVE countValues(_, _)
countValues(ps, i) ==
  IF i > Len(ps) THEN 0
  ELSE (IF ps[i].isArray THEN Len(ps[i].value) ELSE 1) + countValues(ps, i + 1)

\* C7: the whitelist check runs at most once in a build, and exactly once, on the
\* fully parsed parameter list, before the first operation is issued on the query:
\* every assembly step runs on parameters that passed the check.
C7_CheckBeforeAssembly ==
  /\ whitelistChecks <= 1
  /\ whitelistChecks = 1 => Len(parsed) = countValues(params, 1)
  /\ (builder # <<>> \/ pc \in PastCheck) =>
       /\ whitelistChecks = 1
       /\ checkAllowed(parsed, _allowAll, _allow) = NoError
       /\ _allowAll \/ \A i \in DOMAIN allRefs(parsed) : allowed(_allow, allRefs(parsed)[i].str)

C7_Witness ==
  /\ pc = "done"
  /\ ~_allowAll
  /\ Len(allRefs(parsed)) >= 2
  /\ builder # <<>>
  /\ whitelistChecks = 1

\* the special-parameter maps of a freshly constructed builder
DefaultSpecialParameterMap ==
  [n \in {SPECIAL_PARAMETERS[i] : i \in DOMAIN SPECIAL_PARAMETERS} |-> <<n>>]

RECURSIVE parseAll(_, _, _, _, _, _)
parseAll(ps, i, acc, inverse, registered, cache) ==
  IF i > Len(ps) THEN [ok |-> TRUE, parsed |-> acc, cache |-> cache, error |-> NoError]
  ELSE LET r == parseEntry(ps[i], acc, inverse, registered, cache)
       IN  IF ~r.ok THEN r ELSE parseAll(ps, i + 1, r.parsed, inverse, registered, r.cache)

\* _buildFilters: _buildFilter for each filter parameter
RECURSIVE _buildFilters(_, _, _)
_buildFilters(ps, i, q) ==
  IF i > Len(ps) THEN ok(q)
  ELSE LET r == _buildFilter(ps[i], q)
       IN  IF ~r.ok THEN r ELSE _buildFilters(ps, i + 1, r.builder)

\* the loop of _buildOrderBy over the ordering parameters
RECURSIVE buildOrderByEach(_, _, _)
buildOrderByEach(ps, i, q) ==
  IF i > Len(ps) THEN ok(q)
  ELSE LET r == _buildOrderBy(ps[i], q)
       IN  IF ~r.ok THEN r ELSE buildOrderByEach(ps, i + 1, r.builder)

\* the steps of build after _parseQueryParameters, run one after the other
assemble(ps, allowEagerExp) ==
  LET joined == _buildJoins(ps, _buildCount(ps, <<>>).builder).builder
      filtered == _buildFilters(filterParams(ps), 1, joined).builder
      ordered == buildOrderByEach(orderByParams(ps), 1,
                              _buildGroupBy(ps, filtered).builder)
      ranged == _buildRange(ps, ordered.builder)
  IN  IF ~ordered.ok THEN ordered
      ELSE IF ~ranged.ok THEN ranged
      ELSE _buildJoin(ps, _buildEager(ps, ranged.builder, allowEagerExp).builder,
                      allowEagerExp)

\* build on a builder with the given configuration and an empty reference cache:
\* [ok, builder, error]
buildWith(ps, inverse, registered, allowAllFlag, whitelist, allowEagerExp) ==
  LET p == parseAll(ps, 1, <<>>, inverse, registered, <<>>)
  IN  IF ~p.ok THEN thrown(<<>>, p.error)
      ELSE IF checkAllowed(p.parsed, allowAllFlag, whitelist) # NoError
      THEN thrown(<<>>, checkAllowed(p.parsed, allowAllFlag, whitelist))
      ELSE assemble(p.parsed, allowEagerExp)

\* the logical names that have been given a new parameter name
renamed ==
  {n \in DOMAIN _specialParameterMap : _specialParameterMap[n] # DefaultSpecialParameterMap[n]}

\* params with the key k replaced by the key n
withKey(ps, k, n) == [i \in DOMAIN ps |-> IF ps[i].key = k THEN [ps[i] EXCEPT !.key = n] ELSE ps[i]]

hasKey(ps, k) == \E i \in DOMAIN ps : ps[i].key = k

\* C8: after specialParameter(n, k), a build with key k issues exactly the
\* operations (and fails exactly when) a build with key n does on a builder that
\* differs only in having the default parameter names.
C8_RenamePreservesMeaning ==
  \A n \in renamed :
    (/\ renamed = {n}
     /\ pc \in {"done", "failed"}
     /\ hasKey(params, _specialParameterMap[n])
     /\ ~hasKey(params, <<n>>)) =>
      LET byName == buildWith(withKey(params, _specialParameterMap[n], <<n>>),
                              invert(DefaultSpecialParameterMap), _filters, _allowAll,
                              _allow, _allowEager)
      IN  /\ byName.ok <=> pc = "done"
          /\ byName.builder = builder

\* C9: in every configuration, a filter parameter whose key is a bare path p is
\* parsed to the same filter, and gives the same predicate on each of its
\* references, as the parameter with key p:eq and the same value.
C9_DefaultFilterIsEq ==
  \A i \in DOMAIN parsed :
    (parsed[i].filter # "null" /\ Len(split(stripWhitespace(parsed[i].key), ":")) = 1) =>
      LET explicit == QueryParameter(parsed[i].value, parsed[i].key \o <<":", "eq">>,
                                     _inverseSpecialParameterMap, _filters, _propertyRefCache)
      IN  /\ explicit.ok
          /\ explicit.param.propertyRefs = parsed[i].propertyRefs
          /\ \A j \in DOMAIN parsed[i].propertyRefs :
               _getFilter(parsed[i].propertyRefs[j], explicit.param)
                 = _getFilter(parsed[i].propertyRefs[j], parsed[i])

\* the calls _buildOrderBy has to make for an ordering parameter through a
\* one-to-one relation: select the column as <relation><Property>, order by that
selectAs(ref) ==
  call("select", <<fullColumnName(ref) \o <<" as ", ref.relation.name>>
                     \o capitalize(ref.propertyName)>>)

orderByAlias(ref, dir) ==
  call("orderBy", <<<<ref.relation.name>> \o capitalize(ref.propertyName), dir>>)

\* the ordering parameters _buildOrderBy has gone through
orderByDone ==
  IF pc = "orderBy" THEN idx - 1
  ELSE IF pc \in PastOrderBy THEN Len(orderByParams(parsed))
  ELSE 0

\* C10: an ordering parameter through a to-many relation fails the build with a
\* 400 error; one through a one-to-one relation selects the column under the alias
\* <relation><Property> and orders by the alias, descending for orderByDesc and
\* ascending for orderBy and orderByAsc.
C10_OrderByRelation ==
  /\ \A k \in 1..orderByDone :
       LET param == orderByParams(parsed)[k]
           ref == param.propertyRefs[1]
           dir == IF param.specialParameter = "orderByDesc" THEN "desc" ELSE "asc"
       IN  /\ ~isToMany(ref)
           /\ ref.relation # NoRelation =>
                \E j \in 1..(Len(builder) - 1) :
                  /\ builder[j] = selectAs(ref)
                  /\ builder[j + 1] = orderByAlias(ref, dir)
  /\ (/\ pc = "failed"
      /\ whitelistChecks = 1
      /\ \E k \in DOMAIN orderByParams(parsed) :
           isToMany(orderByParams(parsed)[k].propertyRefs[1])) => error.statusCode = 400
  /\ (\E k \in DOMAIN orderByParams(parsed) : isToMany(orderByParams(parsed)[k].propertyRefs[1]))
       => pc \notin PastOrderBy
  /\ \A j \in DOMAIN builder :
       builder[j].op = "orderBy" =>
         \E k \in DOMAIN orderByParams(parsed) :
           ~isToMany(orderByParams(parsed)[k].propertyRefs[1])

C10_Witness ==
  /\ pc = "done"
  /\ \E k \in DOMAIN orderByParams(parsed) :
       /\ orderByParams(parsed)[k].specialParameter = "orderByDesc"
       /\ orderByParams(parsed)[k].propertyRefs[1].relation.name = "parent"
  /\ \E j \in DOMAIN builder : builder[j].op = "orderBy" /\ builder[j].args[2] = "desc"

\* the stages of build after _buildRange
PastRange == {"eager", "join", "done"}

\* the range operations on the query
rangeCalls == SelectSeq(builder, LAMBDA c : c.op = "range")

\* the values of the rangeStart and rangeEnd directives of the parsed parameters,
\* <<>> for a directive that is not there
rangeValue(name) ==
  IF find(parsed, "specialParameter", name) = 0 THEN <<>>
  ELSE <<parsed[find(parsed, "specialParameter", name)].value>>

bothRangeEnds == whitelistChecks = 1 /\ rangeValue("rangeStart") # <<>> /\ rangeValue("rangeEnd") # <<>>

\* C11: with rangeStart and rangeEnd both present, a build never gets past
\* _buildRange when either value is not an integer and then fails with a 400
\* error; when both are integers it issues exactly one range operation, with the
\* parsed start and end.
C11_RangeNeedsIntegers ==
  bothRangeEnds =>
    LET start == parseInt(rangeValue("rangeStart")[1])
        end == parseInt(rangeValue("rangeEnd")[1])
    IN  /\ (isNaN(start) \/ isNaN(end)) =>
              /\ pc \notin PastRange
              /\ rangeCalls = <<>>
              /\ pc = "failed" => error.statusCode = 400
        /\ (~isNaN(start) /\ ~isNaN(end) /\ pc \in PastRange) =>
              rangeCalls = <<call("range", <<start[1], end[1]>>)>>

C11_Witness ==
  /\ pc = "done"
  /\ bothRangeEnds
  /\ rangeCalls = <<call("range", <<2, 4>>)>>

\* C12: a build whose parameters hold exactly one of rangeStart and rangeEnd
\* never gets past _buildRange: it fails instead of building an unranged query.
C12_OneSidedRangeFails ==
  (/\ whitelistChecks = 1
   /\ (rangeValue("rangeStart") = <<>>) # (rangeValue("rangeEnd") = <<>>)) => pc \notin PastRange

\* a path with an empty segment or with more than one relation hop
malformedPath(path) ==
  \/ Len(split(path, ".")) > 2
  \/ \E j \in DOMAIN split(path, ".") : split(path, ".")[j] = <<>>

\* a key with more than one ':', or with a malformed path among the '|'
\* alternatives before the ':' (an empty alternative is an empty segment)
malformedKey(key) ==
  \/ Len(split(key, ":")) > 2
  \/ \E a \in DOMAIN split(split(key, ":")[1], "|") :
        malformedPath(split(split(key, ":")[1], "|")[a])

isFilterKey(key) == inverseLookup(_inverseSpecialParameterMap, key) = "undefined"

malformedKeys ==
  {i \in DOMAIN params : isFilterKey(params[i].key) /\ malformedKey(params[i].key)}

\* C13: a build with a malformed filter key never gets to the whitelist check or
\* to an operation on the query, and its failure is a 400 error.
C13_MalformedKeyFails ==
  malformedKeys # {} =>
    /\ pc \in {"idle", "parse", "failed"}
    /\ pc = "parse" => idx <= Len(params) /\ \A i \in malformedKeys : idx <= i
    /\ builder = <<>>
    /\ pc = "failed" => error.statusCode = 400

C13_Witness ==
  /\ pc = "failed"
  /\ error.statusCode = 400
  /\ \E i \in malformedKeys : params[i].key = <<"firstName", "|", ":", "eq">>

\* the properties of each entity: the columns of its table
tableColumns ==
  [Person |-> {"id", "age", "pid", "firstName", "lastName", "group"},
   Animal |-> {"id", "ownerId", "name"},
   Movie |-> {"id", "name"}]

\* C14: every property reference a build has parsed, of a filter key or of an
\* ordering value, names a property of the root entity, or a relation of the root
\* entity and a property of the related entity, and its column is the entity's
\* mapping of that property.
C14_ResolvedAgainstSchema ==
  \A i \in DOMAIN allRefs(parsed) :
    LET ref == allRefs(parsed)[i]
    IN  /\ ref.relation = NoRelation => ref.modelClass = _modelClass
        /\ ref.relation # NoRelation =>
              /\ hasRelation(_modelClass, <<ref.relation.name>>)
              /\ ref.modelClass = ref.relation.relatedModelClass
        /\ Len(ref.propertyName) = 1
        /\ ref.propertyName[1] \in tableColumns[ref.modelClass]
        /\ ref.columnName = <<formatDatabaseJson(ref.propertyName[1])>>

\* C15: every error a build fails with carries the status code 400.
C15_EveryFailureIsBadRequest == pc = "failed" => error.statusCode = 400

\* the filter calls made on the outer query itself, those inside its groups
\* included, in order
RECURSIVE outerFilterCalls(_, _)
outerFilterCalls(log, i) ==
  IF i > Len(log) THEN <<>>
  ELSE (IF log[i].kind = "group"
        THEN SelectSeq(log[i].sub, LAMBDA c : c.kind = "call")
        ELSE IF log[i].kind = "call" /\ log[i].op \in WhereMethods \cup OrWhereMethods
        THEN <<log[i]>>
        ELSE <<>>) \o outerFilterCalls(log, i + 1)

\* the columns _buildOrderBy selects: each select it issues comes right before
\* its orderBy
orderingSelects ==
  {builder[i].args[1] :
     i \in {j \in 1..(Len(builder) - 1) :
              builder[j].op = "select" /\ builder[j + 1].op = "orderBy"}}

\* the column references of the outer query that go through a join alias
aliasedColumns ==
  {c \in {columnOf(outerFilterCalls(builder, 1)[i]) :
            i \in DOMAIN outerFilterCalls(builder, 1)} \cup orderingSelects :
     Len(c) >= 3 /\ c[2] = "_rel_"}

oneToOneRefs(ps) ==
  SelectSeq(allRefs(ps), LAMBDA r : r.relation # NoRelation /\ isOneToOne(r.relation))

\* C16: every column reference of the outer query through a one-to-one relation
\* starts with the alias under which a join of this build joined the relation,
\* <rootTable>_rel_<relationName>, in filters and in ordering selects alike.
C16_SameAliasEverywhere ==
  /\ \A c \in aliasedColumns :
       \E j \in DOMAIN joinCalls :
         /\ joinCalls[j].args[2] = SubSeq(c, 1, 3)
         /\ joinCalls[j].args[2] = <<_modelClass, "_rel_", joinCalls[j].args[1]>>
  /\ pc \in PastOrderBy =>
       \A i \in DOMAIN oneToOneRefs(parsed) :
         LET ref == oneToOneRefs(parsed)[i]
         IN  \E c \in aliasedColumns :
               /\ SubSeq(c, 1, 3) = <<_modelClass, "_rel_", ref.relation.name>>
               /\ SubSeq(c, 1, 3 + 1 + Len(ref.columnName))
                    = <<_modelClass, "_rel_", ref.relation.name, ".">> \o ref.columnName

C16_Witness ==
  /\ pc = "done"
  /\ Cardinality(aliasedColumns) >= 3
  /\ \E c \in aliasedColumns : Len(c) > 5
  /\ Len(joinCalls) = 1

\* a step of build: the call itself or one of its stages
BuildStep ==
  \/ \E ps \in ParamLists : build(ps)
  \/ ParseQueryParameter
  \/ CheckAllowed
  \/ BuildCount
  \/ BuildJoins
  \/ BuildFilter
  \/ BuildGroupBy
  \/ BuildOrderBy
  \/ BuildRange
  \/ BuildEager
  \/ BuildJoin

\* C17: no step of build, of a build that succeeds or of one that fails, changes
\* the registered filters, the special-parameter maps, the whitelist or the
\* allowed eager expression.
C17_BuildLeavesConfiguration == [][BuildStep => UNCHANGED config]_vars

C17_Witness ==
  /\ pc = "failed"
  /\ Len(parsed) >= 1
  /\ ~_allowAll
  /\ _allow.keys # {}
  /\ _specialParameterMap # DefaultSpecialParameterMap

\* C18: allowAll makes the whitelist allow-all and empties the allowed set; an
\* allow call makes it explicit and adds its paths to the set (which is empty
\* after the constructor and after allowAll); and the whitelist check of a build
\* passes exactly when the whitelist is allow-all or every path is in the set.
C18_WhitelistIsLastAllows ==
  [][/\ allowAll => _allowAll' /\ _allow'.keys = {}
     /\ \A args \in AllowArgs :
          (allow(args) /\ error' = NoError) =>
            /\ ~_allowAll'
            /\ _allow'.keys = (IF _allowAll THEN {} ELSE _allow.keys)
                                \cup {args[i] : i \in DOMAIN args}
     /\ CheckAllowed =>
          (pc' = "count" <=>
             \/ _allowAll
             \/ \A i \in DOMAIN allRefs(parsed) : allRefs(parsed)[i].str \in _allow.keys)]_vars

\* the operations on the query that a directive triggers
DirectiveOps == {"count", "groupBy", "orderBy", "range", "withGraphFetched", "withGraphJoined"}

directiveCalls == SelectSeq(builder, LAMBDA c : c.kind = "call" /\ c.op \in DirectiveOps)

\* the parsed parameters that are directives
directiveParams == SelectSeq(parsed, LAMBDA p : p.specialParameter # "null")

\* C19: a parameter is a directive or a filter, never both: a parameter parsed as
\* a filter triggers no directive operation, so the query holds at most one
\* directive operation per parameter parsed as a directive.
C19_DirectiveOrFilter ==
  /\ \A i \in DOMAIN parsed : parsed[i].specialParameter = "null" <=> parsed[i].filter # "null"
  /\ Len(directiveCalls) <= Len(directiveParams)

\* a range bound that parses as an integer below zero
isNegative(n) == ~isNaN(n) /\ n[1] < 0

\* C20: with rangeStart and rangeEnd both present, a build with a negative start
\* or end never gets past _buildRange and issues no range operation.
C20_RangeIsNonNegative ==
  (/\ bothRangeEnds
   /\ \/ isNegative(parseInt(rangeValue("rangeStart")[1]))
      \/ isNegative(parseInt(rangeValue("rangeEnd")[1]))) =>
    /\ pc \notin PastRange
    /\ rangeCalls = <<>>

countCalls == SelectSeq(builder, LAMBDA c : c.kind = "call" /\ c.op = "count")

\* the selections of the query that are not the one _buildGroupBy adds
rowSelects ==
  {i \in DOMAIN builder :
     /\ builder[i].kind = "call"
     /\ builder[i].op = "select"
     /\ ~(i < Len(builder) /\ builder[i + 1].op = "groupBy")}

\* C21: a query that counts selects no row columns: with a count operation on it,
\* the build adds no selection besides the groupBy columns, and no root.* selection
\* in particular, also when a filter or ordering path goes through a one-to-one
\* relation.
C21_CountSelectsNoRowColumns == countCalls # <<>> => rowSelects = {}

\* the names of the groupBy value that reached the query
groupByCalls == SelectSeq(builder, LAMBDA c : c.kind = "call" /\ c.op = "groupBy")

\* C22: every name the query is grouped by is a property reference that resolves
\* to an own property of the root model class; a name that does not resolve never
\* reaches the query.
C22_GroupByNamesAreValidated ==
  \A i \in DOMAIN groupByCalls :
    \A j \in DOMAIN groupByCalls[i].args[1] :
      /\ PropertyRef_parse(groupByCalls[i].args[1][j], _modelClass).ok
      /\ PropertyRef_parse(groupByCalls[i].args[1][j], _modelClass).ref.relation = NoRelation

\* C23: a parsed ordering parameter carries exactly one property reference; a
\* value with '|' alternatives is never parsed to several references.
C23_OrderByHasOneReference ==
  \A i \in DOMAIN orderByParams(parsed) : Len(orderByParams(parsed)[i].propertyRefs) = 1

\* the positions of the calls of a graph loader on the query
graphCalls(loader) ==
  {i \in DOMAIN builder : builder[i].kind = "call" /\ builder[i].op = loader}

\* the values the params hash gives for a directive, under the key registered for it
directiveValues(directive) ==
  {params[k].value :
     k \in {j \in DOMAIN params :
              inverseLookup(_inverseSpecialParameterMap, params[j].key) = directive}}

\* once build is past the step of a graph directive: the loader is called once with
\* the directive's expression, right after allowGraph when allowEager is set, and
\* is not called without the directive
graphApplied(directive, loader, past) ==
  IF pc \in past /\ directiveValues(directive) # {}
  THEN /\ Cardinality(graphCalls(loader)) = 1
       /\ \A i \in graphCalls(loader) :
            /\ builder[i].args[1] \in directiveValues(directive)
            /\ _allowEager # <<>> =>
                 /\ i > 1
                 /\ builder[i - 1].op = "allowGraph"
                 /\ builder[i - 1].args = <<_allowEager>>
  ELSE graphCalls(loader) = {}

\* C24: with an eager (join) directive, the query gets the allowEager expression
\* as allowGraph, when one is configured, immediately before the directive's
\* expression, which is handed unchanged to withGraphFetched (withGraphJoined);
\* without the directive neither is applied, and allowGraph is applied only
\* together with a loader.
C24_GraphRestrictedBeforeLoaded ==
  /\ graphApplied("eager", "withGraphFetched", {"join", "done"})
  /\ graphApplied("join", "withGraphJoined", {"done"})
  /\ Cardinality(graphCalls("allowGraph")) =
       IF _allowEager = <<>> THEN 0
       ELSE Cardinality(graphCalls("withGraphFetched") \cup graphCalls("withGraphJoined"))

C24_Witness ==
  /\ pc = "done"
  /\ _allowEager # <<>>
  /\ graphCalls("withGraphJoined") # {}
  /\ graphCalls("allowGraph") # {}

\* the build that has ended has the outcome r: the same query, and the same error
sameOutcome(r) ==
  /\ r.ok <=> pc = "done"
  /\ r.builder = builder
  /\ r.error = error

\* C25: the reference cache is a transparent memoization: whatever builds and
\* allow calls came before, a build ends with the query and the outcome of the same
\* build on a builder with the same configuration and an empty cache; the cache
\* holds only paths that resolve, each with the reference a fresh resolution gives.
C25_CacheIsTransparent ==
  /\ pc \in {"done", "failed"} =>
       sameOutcome(buildWith(params, _inverseSpecialParameterMap, _filters, _allowAll,
                             _allow, _allowEager))
  /\ \A k \in DOMAIN _propertyRefCache :
       /\ PropertyRef_parse(k, _modelClass).ok
       /\ PropertyRef_parse(k, _modelClass).ref = _propertyRefCache[k]

C25_Witness ==
  /\ pc = "done"
  /\ ~_allowAll
  /\ builder # <<>>
  /\ allRefs(parsed) # <<>>
  /\ \A i \in DOMAIN allRefs(parsed) : allRefs(parsed)[i].str \in _allow.keys

\* the positions of the selections of every column of the root table
rootSelects ==
  {i \in DOMAIN builder :
     /\ builder[i].kind = "call"
     /\ builder[i].op = "select"
     /\ builder[i].args = <<tableName(_modelClass) \o <<".*">>>>}

\* C26: a build selects <root table>.* exactly when it has added at least one left
\* join of a one-to-one relation: once, after the joins, and not at all without a
\* join.
C26_RootColumnsIffJoined ==
  /\ rootSelects # {} <=> joinCalls # <<>>
  /\ Cardinality(rootSelects) <= 1
  /\ \A i \in rootSelects : i = Len(joinCalls) + Len(countCalls) + 1
  /\ pc \in PastJoins => (rootSelects # {} <=> oneToOneNames(parsed) # {})

C26_Witness ==
  /\ pc = "done"
  /\ rootSelects # {}
  /\ Len(joinCalls) = 1

orderByCalls == SelectSeq(builder, LAMBDA c : c.kind = "call" /\ c.op = "orderBy")

pathsOf(key) == split(split(stripWhitespace(key), ":")[1], "|")

\* every parameter of the build is a filter with a well-formed key and a
\* registered filter
wellFormedFilters ==
  \A i \in DOMAIN params :
    /\ isFilterKey(params[i].key)
    /\ ~malformedKey(params[i].key)
    /\ filterOf(split(stripWhitespace(params[i].key), ":"), _filters) # "undefined"

\* the paths of the params hash that the whitelist does not hold
pathsNotAllowed ==
  {path \in UNION {{pathsOf(params[i].key)[a] : a \in DOMAIN pathsOf(params[i].key)} :
                     i \in DOMAIN params} :
     ~allowed(_allow, path)}

====
